---- MODULE Spec2Model ----
(***************************************************************************)
(* Model of monitor_docker's helpers.py: the DockerAPI (registry of        *)
(* container monitors, event consumer, create/destroy reconciliation,      *)
(* reconnect loop, startup attach) and the DockerContainerAPI (polling     *)
(* task, memory spike filter).                                             *)
(*                                                                         *)
(* Python dicts are insertion ordered; they are modelled as sequences of   *)
(* [k, v] records so that iteration order is the code's.                   *)
(* asyncio is cooperative: every action below is the code that runs        *)
(* between two awaits of one task.                                         *)
(***************************************************************************)
EXTENDS Integers, Sequences, FiniteSets, TLC

(***************************************************************************)
(* Bounds of the model.                                                    *)
(***************************************************************************)
\* container names are 1..MaxNames
MaxNames == 3
\* number of changes (create, destroy, rename, start, stop) the daemon makes
MaxEvents == 2
\* number of reconnect attempts the daemon lets fail
MaxFail == 2
\* memory readings are 0..MaxMem (MB)
MaxMem == 4
\* stats packets are read at the seconds 0..MaxRead
MaxRead == 3
\* unit conversions are made for 0..MaxConv
MaxConv == 2048
\* iterations of one polling loop _run()
MaxIter == 3
\* start(), stop() and restart() calls on one container
MaxOps == 2
\* calls of the restart service
MaxCalls == 2
\* failures in a row of the cpu or the memory family of a container
MaxErrors == 3

CNames == 1..MaxNames

VARIABLES
    \* ---- the daemon and the event channel of aiodocker
    dexists,            \* names of the containers that exist in the daemon
    streamOpen,         \* the events subscription delivers what the daemon emits
    stream,             \* events in flight, oldest first; "None" is the end signal
    emitted,            \* daemon changes so far
    eventBudget,        \* number of changes the daemon makes in this run
    \* ---- DockerAPI fields
    containers,         \* self._containers : name -> None | DockerContainerAPI
    event_create,       \* self._event_create : name -> counter
    event_destroy,      \* self._event_destroy : name -> counter
    dockerStopped,      \* self._dockerStopped
    orphans,            \* name -> number of polling tasks still running whose
                        \* monitor is no longer the registry's entry
    \* ---- DockerAPI.run() (startup)
    runpc, runLen, runVisited, runName, runMon,
    \* ---- the task DockerAPI._run_docker_events()
    evpc, evret, evname, evctx, evlist, evidx,
    event,              \* the local "event" of _run_docker_events(): the last one read
    nfail,              \* consecutive failed init attempts of _reconnectx
    \* ---- DockerContainerAPI memory spike filter
    memChange,              \* self._memChange
    memory_prev,            \* self._memory_prev
    memory_prev_breach,     \* self._memory_prev_breach
    memory_percent_prev,    \* self._memory_percent_prev
    stats_memory,           \* self._stats[CONTAINER_STATS_MEMORY]
    stats_memory_percent,   \* self._stats[CONTAINER_STATS_MEMORY_PERCENTAGE]
    lastSample,             \* the sample the last _run_container_stats handled
    prevBefore,             \* self._memory_prev when that call began
    breachBefore,           \* self._memory_prev_breach when that call began
    \* ---- DockerContainerAPI cpu and network statistics
    precisionCpu,           \* self._config[CONF_PRECISION_CPU]
    networkMode,            \* HostConfig.NetworkMode of the container
    cpu_old,                \* self._cpu_old
    network_old,            \* self._network_old
    network_error,          \* self._network_error
    cpu_error,              \* self._cpu_error
    memory_error,           \* self._memory_error
    netFailRun,             \* failed parses of the network family since its last success
    stats_cpu,              \* self._stats[CONTAINER_STATS_CPU_PERCENTAGE]
    stats_1cpu,             \* self._stats[CONTAINER_STATS_1CPU_PERCENTAGE]
    stats_speed_tx,         \* self._stats[CONTAINER_STATS_NETWORK_SPEED_UP]
    stats_speed_rx,         \* self._stats[CONTAINER_STATS_NETWORK_SPEED_DOWN]
    stats_total_tx,         \* self._stats[CONTAINER_STATS_NETWORK_TOTAL_UP]
    stats_total_rx,         \* self._stats[CONTAINER_STATS_NETWORK_TOTAL_DOWN]
    statsRaised,            \* what the last _run_container_stats raised, or "none"
    lastRaw,                \* the raw packet the last _run_container_stats handled
    cpuBefore,              \* self._cpu_old when that call began
    netBefore,              \* self._network_old when that call began
    \* ---- a conversion of x KB to kBytes and back to MBytes
    convX, convKB, convMB, convpc,
    \* ---- DockerContainerAPI._run_container_info()
    infoRaw,                \* what container.show() returned, times as time passed since
    info_state,             \* self._info[CONTAINER_INFO_STATE]
    info_status,            \* self._info[CONTAINER_INFO_STATUS]
    \* ---- DockerContainerAPI._run() and start() / stop() / restart()
    busy,                   \* self._busy
    taskpc,                 \* where self._task is: "created" (not yet run), suspended
                            \* in "show", "stats" or "sleep", or "done"
    sleepFor,               \* what the loop sleeps for: "interval" or "retry_interval"
    niter,                  \* iterations of the loop begun so far
    nfetch,                 \* calls of container.show() and container.stats() so far
    nnotify,                \* calls of self._notify() so far
    nerrorlog,              \* entries _run() has written to the error log so far
    iterBusy,               \* self._busy when the last iteration began
    taskCancelled,          \* cancel_task() has called self._task.cancel()
    atCancel,               \* nfetch and nnotify when it returned
    opsInFlight,            \* the calls of start/stop/restart awaiting the daemon
    nops,                   \* calls of start/stop/restart so far
    lastOp,                 \* the last call that completed, and how
    \* ---- the restart service of switch.py
    server_containers,      \* server_config[CONF_CONTAINERS]: the include-list
    server_monitored,       \* names get_container() returns a monitor for
    parm,                   \* the data of the last service call: name and server
    restarts,               \* calls of restart() the service has made so far
    serviceRaised,          \* what the last service call raised, or "none"
    ncalls,                 \* service calls so far
    \* ---- the task DockerAPI._run_docker_info()
    infopc,                 \* "notstarted", suspended in "info" (system.info()) or
                            \* in "sleep", or "ended"
    infoSleepFor,           \* what it sleeps for: "interval" or "retry_interval"
    ninfo,                  \* iterations of the loop begun so far
    loopInit,               \* its local loopInit: an iteration has succeeded
    info_ncpu,              \* "NCPU" of system.info(); 0 stands for a missing one
    info_memtotal,          \* "MemTotal" of system.info(), in bytes
    docker_cpu,             \* self._info[DOCKER_STATS_CPU_PERCENTAGE]
    docker_1cpu,            \* self._info[DOCKER_STATS_1CPU_PERCENTAGE]
    docker_memory,          \* self._info[DOCKER_STATS_MEMORY]
    docker_memory_percent,  \* self._info[DOCKER_STATS_MEMORY_PERCENTAGE]
    aggregated,             \* what the last aggregation read of the container
    \* ---- DockerAPI.destroy()
    destroyed               \* "no", or how the call ended: "done" or "raised"

daemonVars == <<dexists, streamOpen, stream, emitted, eventBudget>>
apiVars    == <<containers, event_create, event_destroy, dockerStopped, orphans>>
runVars    == <<runpc, runLen, runVisited, runName, runMon>>
evVars     == <<evpc, evret, evname, evctx, evlist, evidx, event, nfail>>
memVars    == <<memChange, memory_prev, memory_prev_breach, memory_percent_prev,
                stats_memory, stats_memory_percent, lastSample, prevBefore, breachBefore>>
statsVars  == <<precisionCpu, networkMode, cpu_old, network_old, network_error,
                cpu_error, memory_error, netFailRun,
                stats_cpu, stats_1cpu, stats_speed_tx, stats_speed_rx, stats_total_tx,
                stats_total_rx, statsRaised, lastRaw, cpuBefore, netBefore>>
convVars   == <<convX, convKB, convMB, convpc>>
infoVars   == <<infoRaw, info_state, info_status>>
pollVars   == <<busy, taskpc, sleepFor, niter, nfetch, nnotify, nerrorlog, iterBusy,
                taskCancelled, atCancel, opsInFlight, nops, lastOp>>
serviceVars == <<server_containers, server_monitored, parm, restarts, serviceRaised, ncalls>>
dockerInfoVars == <<infopc, infoSleepFor, ninfo, loopInit, info_ncpu, info_memtotal,
                    docker_cpu, docker_1cpu, docker_memory, docker_memory_percent,
                    aggregated>>
monVars    == <<memVars, statsVars, convVars, infoVars, pollVars, serviceVars,
                dockerInfoVars, destroyed>>
vars == <<daemonVars, apiVars, runVars, evVars, monVars>>

(***************************************************************************)
(* Python dict as a sequence of [k, v] records in insertion order.         *)
(***************************************************************************)
Keys(d) == {d[i].k : i \in 1..Len(d)}
Has(d, key) == key \in Keys(d)
Get(d, key) == d[CHOOSE i \in 1..Len(d) : d[i].k = key].v
Put(d, key, val) ==
    IF Has(d, key)
    THEN [i \in 1..Len(d) |-> IF d[i].k = key THEN [k |-> key, v |-> val] ELSE d[i]]
    ELSE Append(d, [k |-> key, v |-> val])
DelKey(e, key) == e.k # key
Del(d, key) == SelectSeq(d, LAMBDA e : DelKey(e, key))
KeySeq(d) == [i \in 1..Len(d) |-> d[i].k]

RECURSIVE SetToSeq(_)
SetToSeq(S) ==
    IF S = {} THEN <<>>
    ELSE LET m == CHOOSE x \in S : \A y \in S : x <= y
         IN <<m>> \o SetToSeq(S \ {m})

(***************************************************************************)
(* DockerContainerAPI objects as far as the registry sees them.            *)
(*   id   : object identity (0 is Python's None)                           *)
(*   task : "none"  self._task is None                                     *)
(*          "fetch" _run() is suspended in show() / stats(), inside  try   *)
(*          "sleep" _run() is suspended in asyncio.sleep(), outside  try   *)
(*          "done"  the task has ended                                     *)
(*   cancelled : cancel_task() has called self._task.cancel()              *)
(*   removed   : remove_entities() has sent remove=True to the subscribers *)
(***************************************************************************)
NoneMon == [id |-> 0, task |-> "none", cancelled |-> FALSE, removed |-> FALSE]
NewMon(id) == [id |-> id, task |-> "none", cancelled |-> FALSE, removed |-> FALSE]
IsNone(m) == m.id = 0
\* the identity of a new object: one that no reference holds (the registry's
\* entries and the object run() is attaching)
NextId(c, held) ==
    CHOOSE id \in 1..(Len(c) + 2) :
        /\ id # held
        /\ \A i \in 1..Len(c) : c[i].v.id # id
        /\ \A j \in 1..(id - 1) : j = held \/ \E i \in 1..Len(c) : c[i].v.id = j
Alive(m) == m.task \in {"fetch", "sleep"}

(***************************************************************************)
(* The daemon: it creates, destroys and renames containers and emits one   *)
(* event per change on the open subscription; losing the connection puts   *)
(* the end signal (None) on the subscription and closes it.                *)
(***************************************************************************)
Ev(type, action, name, old) ==
    [Type |-> type, Action |-> action, name |-> name, oldName |-> old]
EndOfStream == Ev("None", "None", 0, 0)
NoEvent == Ev("unset", "unset", 0, 0)

Emit(e) ==
    /\ emitted < eventBudget
    /\ emitted' = emitted + 1
    /\ stream' = IF streamOpen THEN Append(stream, e) ELSE stream
    /\ UNCHANGED <<streamOpen, eventBudget>>

DaemonCreate(n) ==
    /\ n \notin dexists
    /\ dexists' = dexists \cup {n}
    /\ Emit(Ev("container", "create", n, 0))
    /\ UNCHANGED <<apiVars, runVars, evVars, monVars>>

DaemonDestroy(n) ==
    /\ n \in dexists
    /\ dexists' = dexists \ {n}
    /\ Emit(Ev("container", "destroy", n, 0))
    /\ UNCHANGED <<apiVars, runVars, evVars, monVars>>

DaemonRename(o, n) ==
    /\ o \in dexists
    /\ n \notin dexists
    /\ dexists' = (dexists \ {o}) \cup {n}
    /\ Emit(Ev("container", "rename", n, o))
    /\ UNCHANGED <<apiVars, runVars, evVars, monVars>>

\* an event the consumer does not act on: a container start, a network connect
DaemonOther(type, n) ==
    /\ n \in dexists
    /\ streamOpen
    /\ Emit(Ev(type, IF type = "container" THEN "start" ELSE "connect", n, 0))
    /\ UNCHANGED <<dexists, apiVars, runVars, evVars, monVars>>

DaemonStop ==
    /\ streamOpen
    /\ streamOpen' = FALSE
    /\ stream' = Append(stream, EndOfStream)
    /\ UNCHANGED <<dexists, emitted, eventBudget, apiVars, runVars, evVars, monVars>>

(***************************************************************************)
(* Startup: DockerAPI.init() enumerates the containers, DockerAPI.run()    *)
(* creates the event task and attaches every container of the registry.    *)
(***************************************************************************)
\* init(), lines 251-260: every listed container is registered as None
RegisterListed(c, listed) ==
    LET names == SetToSeq(listed)
        RECURSIVE put(_, _)
        put(d, i) == IF i > Len(names) THEN d ELSE put(Put(d, names[i], NoneMon), i + 1)
    IN put(c, 1)

StartupInit ==
    /\ runpc = "init"
    /\ containers' = RegisterListed(containers, dexists)
    /\ runpc' = "run"
    /\ UNCHANGED <<daemonVars, event_create, event_destroy, dockerStopped,
                   orphans, runLen, runVisited, runName, runMon, evVars, monVars>>

\* "for cname in self._containers" of run(): the dict iterator raises
\* RuntimeError when the dict changed size, or when it has yielded as many
\* keys as the dict had and a key is left; a truthy entry is skipped.
RECURSIVE RunScan(_, _, _)
RunScan(c, len, visited) ==
    LET rest == SelectSeq(KeySeq(c), LAMBDA n : n \notin visited)
    IN  IF Len(c) # len THEN [kind |-> "error", n |-> 0, visited |-> visited]
        ELSE IF Cardinality(visited) >= len
             THEN IF rest # <<>>
                  THEN [kind |-> "error", n |-> 0, visited |-> visited]
                  ELSE [kind |-> "end", n |-> 0, visited |-> visited]
        ELSE IF rest = <<>> THEN [kind |-> "end", n |-> 0, visited |-> visited]
        ELSE IF ~IsNone(Get(c, rest[1]))
             THEN RunScan(c, len, visited \cup {rest[1]})
        ELSE [kind |-> "attach", n |-> rest[1], visited |-> visited \cup {rest[1]}]

\* one step of run()'s loop up to its next await, from registry c
RunLoop(c, len, visited) ==
    LET r == RunScan(c, len, visited)
    IN  /\ runVisited' = r.visited
        /\ runLen' = len
        /\ IF r.kind = "attach"
           THEN /\ containers' = Put(c, r.n, NewMon(NextId(c, 0)))
                /\ runName' = r.n
                /\ runMon' = NextId(c, 0)
                /\ runpc' = "attach"
           ELSE /\ containers' = c
                /\ runpc' = IF r.kind = "error" THEN "failed" ELSE "done"
                /\ runName' = 0
                /\ runMon' = 0

\* run(), lines 267-293, up to the first await
RunStart ==
    /\ runpc = "run"
    /\ evpc = "notstarted"
    /\ evpc' = "get"
    /\ streamOpen' = TRUE
    /\ RunLoop(containers, Len(containers), {})
    /\ UNCHANGED <<dexists, stream, emitted, eventBudget, event_create, event_destroy,
                   dockerStopped, orphans, evret, evname, evctx, evlist, evidx, event,
                   nfail, monVars>>

\* the object run() holds gets its task; the registry may no longer hold it
SetTask(c, id) ==
    [i \in 1..Len(c) |->
        IF c[i].v.id = id THEN [c[i] EXCEPT !.v.task = "fetch"] ELSE c[i]]
HoldsObject(c, id) == \E i \in 1..Len(c) : c[i].v.id = id

\* DockerContainerAPI.init(), lines 946-960, after containers.get() returned
RunAttachDone ==
    /\ runpc = "attach"
    /\ LET ok == runName \in dexists
           c1 == IF ok THEN SetTask(containers, runMon) ELSE containers
       IN  /\ orphans' = IF ok /\ ~HoldsObject(containers, runMon)
                         THEN [orphans EXCEPT ![runName] = @ + 1] ELSE orphans
           /\ RunLoop(c1, runLen, runVisited)
    /\ UNCHANGED <<daemonVars, event_create, event_destroy, dockerStopped, evVars, monVars>>

(***************************************************************************)
(* The polling task DockerContainerAPI._run() of a registered monitor, as  *)
(* far as cancellation sees it: it alternates between the fetch inside the *)
(* try block and the sleep after it.                                       *)
(***************************************************************************)
PollStep(i) ==
    /\ i \in 1..Len(containers)
    /\ Alive(containers[i].v)
    /\ containers' = [containers EXCEPT ![i].v.task = IF @ = "fetch" THEN "sleep" ELSE "fetch"]
    /\ UNCHANGED <<daemonVars, event_create, event_destroy, dockerStopped,
                   orphans, runVars, evVars, monVars>>

\* cancel_task(), lines 1473-1486, with the effect of Task.cancel() on _run():
\* suspended in the sleep (lines 1092-1095) the CancelledError ends the task;
\* suspended in show()/stats() it is caught at line 1060 and the loop goes on.
CancelTask(m) ==
    IF Alive(m)
    THEN [m EXCEPT !.cancelled = TRUE, !.task = IF @ = "sleep" THEN "done" ELSE @]
    ELSE m

\* remove_entities(), lines 1499-1508
RemoveEntities(m) == [m EXCEPT !.removed = TRUE]

(***************************************************************************)
(* DockerAPI._run_docker_events(): one action per event kind, then the     *)
(* steps of _container_create_destroy(), which the handler awaits inline.  *)
(***************************************************************************)
EvReady == evpc = "get" /\ stream # <<>>
TaskCreated(ec, ed) == ec # <<>> \/ ed # <<>>

\* lines 479-502
EvCreate ==
    /\ EvReady
    /\ Head(stream).Type = "container" /\ Head(stream).Action = "create"
    /\ LET cname == Head(stream).name
           taskcreated == TaskCreated(event_create, event_destroy)
           ec == IF ~Has(event_create, cname) THEN Put(event_create, cname, 0)
                 ELSE event_create
       IN  /\ event_create' = ec
           /\ evpc' = IF ec # <<>> /\ ~taskcreated THEN "tick" ELSE "get"
    /\ evret' = "get"
    /\ stream' = Tail(stream)
    /\ event' = Head(stream)
    /\ UNCHANGED <<dexists, streamOpen, emitted, eventBudget, containers, event_destroy,
                   dockerStopped, orphans, runVars, evname, evctx, evlist, evidx, nfail, monVars>>

\* lines 504-535
EvDestroy ==
    /\ EvReady
    /\ Head(stream).Type = "container" /\ Head(stream).Action = "destroy"
    /\ LET cname == Head(stream).name
           taskcreated == TaskCreated(event_create, event_destroy)
           ec == IF Has(event_create, cname) THEN Del(event_create, cname)
                 ELSE event_create
           ed == IF Has(event_create, cname) THEN event_destroy
                 ELSE IF ~Has(event_destroy, cname) THEN Put(event_destroy, cname, 0)
                 ELSE event_destroy
       IN  /\ event_create' = ec
           /\ event_destroy' = ed
           /\ evpc' = IF ed # <<>> /\ ~taskcreated THEN "tick" ELSE "get"
    /\ evret' = "get"
    /\ stream' = Tail(stream)
    /\ event' = Head(stream)
    /\ UNCHANGED <<dexists, streamOpen, emitted, eventBudget, containers, dockerStopped,
                   orphans, runVars, evname, evctx, evlist, evidx, nfail, monVars>>

\* lines 580-602: the second half of the rename handler, from tables ec, ed
Rename2(ec, ed, cname) ==
    LET taskcreated == TaskCreated(ec, ed)
        ec2 == IF ~Has(ec, cname) THEN Put(ec, cname, 0) ELSE ec
    IN  /\ event_create' = ec2
        /\ evpc' = IF ec2 # <<>> /\ ~taskcreated THEN "tick" ELSE "get"
        /\ evret' = "get"
        /\ evname' = 0

\* lines 536-608
EvRename ==
    /\ EvReady
    /\ Head(stream).Type = "container" /\ Head(stream).Action = "rename"
    /\ stream' = Tail(stream)
    /\ event' = Head(stream)
    /\ LET cname == Head(stream).name
           oname == Head(stream).oldName
           keyError == Has(event_create, oname) /\ ~Has(event_create, cname)
           ec == IF Has(event_create, oname) THEN Del(event_create, cname)
                 ELSE event_create
           ed == IF Has(event_create, oname) THEN event_destroy
                 ELSE IF ~Has(event_destroy, oname) THEN Put(event_destroy, oname, 0)
                 ELSE event_destroy
       IN  IF ~Has(containers, oname)
           THEN UNCHANGED <<event_create, event_destroy, evpc, evret, evname>>
           ELSE IF keyError
           THEN \* del self._event_create[cname] raises; line 610 ends the task
                /\ evpc' = "crashed"
                /\ UNCHANGED <<event_create, event_destroy, evret, evname>>
           ELSE /\ event_destroy' = ed
                /\ IF ed # <<>>
                   THEN /\ event_create' = ec /\ evpc' = "tick" /\ evret' = "rename2"
                        /\ evname' = cname
                   ELSE Rename2(ec, ed, cname)
    /\ UNCHANGED <<dexists, streamOpen, emitted, eventBudget, containers, dockerStopped,
                   orphans, runVars, evctx, evlist, evidx, nfail, monVars>>

\* lines 477-478 and the end of the if/elif chain: nothing to do
EvIgnore ==
    /\ EvReady
    /\ Head(stream) # EndOfStream
    /\ \/ Head(stream).Type # "container"
       \/ Head(stream).Action \notin {"create", "destroy", "rename"}
    /\ stream' = Tail(stream)
    /\ event' = Head(stream)
    /\ UNCHANGED <<dexists, streamOpen, emitted, eventBudget, apiVars, runVars, evpc, evret, evname,
                   evctx, evlist, evidx, nfail, monVars>>

\* lines 446-457: the stream ended
EvStreamEnd ==
    /\ EvReady
    /\ Head(stream) = EndOfStream
    /\ stream' = Tail(stream)
    /\ event' = Head(stream)
    /\ dockerStopped' = TRUE
    /\ evlist' = KeySeq(containers)
    /\ evidx' = 1
    /\ evctx' = "end"
    /\ evpc' = IF containers = <<>> THEN "reconnect_init" ELSE "rm"
    /\ UNCHANGED <<dexists, streamOpen, emitted, eventBudget, containers, event_create,
                   event_destroy, orphans, runVars, evret, evname, nfail, monVars>>

\* the coroutine _container_create_destroy() returns to the handler
BatchReturn(ec, ed) ==
    IF evret = "rename2"
    THEN Rename2(ec, ed, evname)
    ELSE event_create' = ec /\ evpc' = "get" /\ evret' = "get" /\ evname' = 0

\* a batch in which a pending create is ready one tick earlier (counter > 1)
FirstReadyAfterTwo(ec) ==
    IF \E i \in 1..Len(ec) : ec[i].v > 1
    THEN CHOOSE i \in 1..Len(ec) : ec[i].v > 1 /\ \A j \in 1..(i - 1) : ~(ec[j].v > 1)
    ELSE 0

\* lines 626-632: index of the first pending create whose counter is > 2
FirstReady(ec) ==
    IF \E i \in 1..Len(ec) : ec[i].v > 2
    THEN CHOOSE i \in 1..Len(ec) : ec[i].v > 2 /\ \A j \in 1..(i - 1) : ~(ec[j].v > 2)
    ELSE 0

\* the counters of the first n entries incremented
Incr(ec, n) == [i \in 1..Len(ec) |-> IF i <= n THEN [ec[i] EXCEPT !.v = @ + 1] ELSE ec[i]]

\* lines 624-641: one pass of the while loop up to its first await;
\* _container_add() lines 653-663 is part of it
Tick ==
    /\ evpc = "tick"
    /\ IF event_create = <<>> /\ event_destroy = <<>>
       THEN /\ BatchReturn(event_create, event_destroy)
            /\ UNCHANGED <<containers, event_destroy, evctx, evlist, evidx>>
       ELSE LET j == FirstReady(event_create)
            IN  IF j > 0
                THEN LET cname == event_create[j].k
                     IN  /\ event_create' = Del(Incr(event_create, j - 1), cname)
                         /\ evret' = evret
                         /\ IF Has(containers, cname)
                            THEN /\ evpc' = "tick_sleep"
                                 /\ UNCHANGED <<containers, evname>>
                            ELSE /\ containers' = Put(containers, cname,
                                                       NewMon(NextId(containers, runMon)))
                                 /\ evname' = cname
                                 /\ evpc' = "add_get"
                         /\ UNCHANGED <<event_destroy, evctx, evlist, evidx>>
                ELSE /\ event_create' = Incr(event_create, Len(event_create))
                     /\ evret' = evret
                     /\ evlist' = KeySeq(event_destroy)
                     /\ evidx' = 1
                     /\ evctx' = "batch"
                     /\ evpc' = IF event_destroy = <<>> THEN "tick_sleep" ELSE "rm"
                     /\ UNCHANGED <<containers, event_destroy, evname>>
    /\ UNCHANGED <<daemonVars, dockerStopped, orphans, runVars, event, nfail, monVars>>

\* _initGetContainer(), lines 963-991, after containers.get() returned
AddGet ==
    /\ evpc = "add_get"
    /\ IF evname \in dexists
       THEN /\ containers' = Put(containers, evname,
                                 [Get(containers, evname) EXCEPT !.task = "fetch"])
            /\ evpc' = "add_sleep"
       ELSE /\ evpc' = "tick_sleep"
            /\ UNCHANGED containers
    /\ UNCHANGED <<daemonVars, event_create, event_destroy, dockerStopped, orphans,
                   runVars, evret, evname, evctx, evlist, evidx, event, nfail, monVars>>

\* lines 669-679: the sleep before load_platform
AddSleep ==
    /\ evpc = "add_sleep"
    /\ evpc' = "tick_sleep"
    /\ UNCHANGED <<daemonVars, apiVars, runVars, evret, evname, evctx, evlist, evidx,
                   event, nfail, monVars>>

\* line 641
TickSleep ==
    /\ evpc = "tick_sleep"
    /\ evpc' = "tick"
    /\ UNCHANGED <<daemonVars, apiVars, runVars, evret, evname, evctx, evlist, evidx,
                   event, nfail, monVars>>

\* the removal loop (lines 635-638 in a batch, 457-467 at the stream's end)
\* goes on with its next name, or ends
Advance ==
    IF evidx < Len(evlist)
    THEN /\ evidx' = evidx + 1
         /\ evpc' = "rm"
         /\ UNCHANGED <<event_destroy, evlist, evctx, nfail>>
    ELSE /\ evidx' = 1
         /\ evlist' = <<>>
         /\ evctx' = "batch"
         /\ IF evctx = "batch"
            THEN event_destroy' = <<>> /\ evpc' = "tick_sleep" /\ UNCHANGED nfail
            ELSE evpc' = "reconnect_init" /\ nfail' = 0 /\ UNCHANGED event_destroy

\* _container_remove(), lines 686-691, up to its sleep
Rm ==
    /\ evpc = "rm"
    /\ LET cname == evlist[evidx]
       IN  IF ~Has(containers, cname)
           THEN Advance /\ UNCHANGED <<containers, event_create, evret, evname>>
           ELSE IF IsNone(Get(containers, cname))
           THEN \* None has no cancel_task(): AttributeError
                IF evctx = "batch"
                THEN /\ BatchReturn(event_create, event_destroy)
                     /\ evidx' = 1 /\ evlist' = <<>> /\ evctx' = "batch"
                     /\ UNCHANGED <<containers, event_destroy, nfail>>
                ELSE Advance /\ UNCHANGED <<containers, event_create, evret, evname>>
           ELSE /\ containers' = Put(containers, cname,
                                     RemoveEntities(CancelTask(Get(containers, cname))))
                /\ evpc' = "rm_sleep"
                /\ UNCHANGED <<event_create, event_destroy, evret, evname, evidx,
                               evlist, evctx, nfail>>
    /\ UNCHANGED <<daemonVars, dockerStopped, orphans, runVars, event, monVars>>

\* _container_remove(), line 692, after the sleep
RmSleep ==
    /\ evpc = "rm_sleep"
    /\ LET cname == evlist[evidx]
       IN  /\ containers' = Del(containers, cname)
           /\ orphans' = IF Alive(Get(containers, cname))
                         THEN [orphans EXCEPT ![cname] = @ + 1] ELSE orphans
    /\ Advance
    /\ UNCHANGED <<daemonVars, event_create, dockerStopped, runVars, evret,
                   evname, event, monVars>>

(***************************************************************************)
(* _reconnectx(), lines 376-392.                                           *)
(***************************************************************************)
\* what init() can raise, and what "except Exception" catches
InitErrors == {"ConfigEntryAuthFailed", "ValueError", "TimeoutError", "ClientError"}
\* a reconnect loop that retries on connection errors only
CaughtConnectionErrorsOnly(kind) == kind \in {"TimeoutError", "ClientError"}
CaughtByReconnect(kind) == kind \in InitErrors

ReconnectInitFail(kind) ==
    /\ evpc = "reconnect_init"
    /\ nfail < MaxFail
    /\ nfail' = nfail + 1
    /\ evpc' = IF CaughtByReconnect(kind) THEN "reconnect_sleep" ELSE "crashed"
    /\ UNCHANGED <<daemonVars, apiVars, runVars, evret, evname, evctx, evlist, evidx,
                   event, monVars>>

ReconnectWake ==
    /\ evpc = "reconnect_sleep"
    /\ evpc' = "reconnect_init"
    /\ UNCHANGED <<daemonVars, apiVars, runVars, evret, evname, evctx, evlist, evidx,
                   event, nfail, monVars>>

\* polling tasks of the monitors that init() overwrites with None go on
Overwritten(c, listed) ==
    [n \in CNames |-> IF n \in listed /\ Has(c, n) /\ Alive(Get(c, n)) THEN 1 ELSE 0]

\* init() succeeded: the break of line 382, then the break of line 475
ReconnectInitOk ==
    /\ evpc = "reconnect_init"
    /\ containers' = RegisterListed(containers, dexists)
    /\ orphans' = [n \in CNames |-> orphans[n] + Overwritten(containers, dexists)[n]]
    /\ evpc' = "ended"
    /\ UNCHANGED <<daemonVars, event_create, event_destroy, dockerStopped,
                   runVars, evret, evname, evctx, evlist, evidx, event, nfail, monVars>>

(***************************************************************************)
(* DockerContainerAPI._run_container_stats(): memory and the spike filter. *)
(* The configured precisions are 0 decimals, so the values are integers;   *)
(* the comparison of the change percent is made in exact arithmetic.       *)
(***************************************************************************)
\* Python's None for an optional number
NoneVal == -1
BytesPerMB == 1024 * 1024

\* Python's round(): to the nearest integer, ties to the even one (num >= 0)
RoundHalfEven(num, den) ==
    LET q == num \div den
        r == num % den
    IN  IF 2 * r < den THEN q
        ELSE IF 2 * r > den THEN q + 1
        ELSE IF q % 2 = 0 THEN q ELSE q + 1

\* a conversion to MBytes that cuts the decimals off
toMBTruncated(value) == value \div BytesPerMB

\* toMB(value, 0), lines 85-88
toMB(value) == RoundHalfEven(value, BytesPerMB)

\* toKB(value, 0), lines 79-82
toKB(value) == RoundHalfEven(value, 1024)

\* toKB(x * 1024, 0)
ConvToKB ==
    /\ convpc = "x"
    /\ convKB' = toKB(convX * 1024)
    /\ convpc' = "kb"
    /\ UNCHANGED <<convX, convMB, daemonVars, apiVars, runVars, evVars, memVars, statsVars,
                   infoVars, pollVars, serviceVars, dockerInfoVars, destroyed>>

\* toMB(... * 1024, 0) of the result
ConvToMB ==
    /\ convpc = "kb"
    /\ convMB' = toMB(convKB * 1024)
    /\ convpc' = "mb"
    /\ UNCHANGED <<convX, convKB, daemonVars, apiVars, runVars, evVars, memVars, statsVars,
                   infoVars, pollVars, serviceVars, dockerInfoVars, destroyed>>

\* lines 1257-1278 and 1290: the memory family of one raw sample.
\*   kind "ok"      usage and limit are there
\*        "nolimit" memory_stats has no "limit": KeyError after usage is set
\*        "nostats" memory_stats is missing: KeyError before usage is set
MemoryUsage(sample) ==
    IF sample.kind = "nostats" THEN NoneVal ELSE toMB(sample.usage)
MemoryPercent(sample) ==
    IF sample.kind # "ok" THEN NoneVal
    ELSE RoundHalfEven(toMB(sample.usage) * 100, toMB(sample.limit))

\* Python truthiness of an optional number: None and 0 are false
Truthy(x) == x # NoneVal /\ x # 0

\* a filter that does not look at the previous sample's breach flag
MemBreachIgnoringPrevious(usage, prev, prev_breach, change) ==
    /\ Truthy(usage) /\ Truthy(prev)
    /\ change < 100
    /\ (IF usage >= prev THEN usage - prev ELSE prev - usage) * 100 >= change * prev

\* a filter that still suppresses at a threshold of 100
MemBreachUpToHundred(usage, prev, prev_breach, change) ==
    /\ Truthy(usage) /\ Truthy(prev) /\ ~prev_breach
    /\ change <= 100
    /\ (IF usage >= prev THEN usage - prev ELSE prev - usage) * 100 >= change * prev

\* lines 1327-1335: mem_breach
MemBreach(usage, prev, prev_breach, change) ==
    /\ Truthy(usage) /\ Truthy(prev) /\ ~prev_breach
    /\ change < 100
    \* abs((usage / prev) - 1) * 100 >= change
    /\ (IF usage >= prev THEN usage - prev ELSE prev - usage) * 100 >= change * prev

\* lines 1327-1348: self._memory_prev_breach after the first if/else
PrevBreachAfterTest(usage, prev, prev_breach) ==
    IF Truthy(usage) /\ Truthy(prev) /\ ~prev_breach THEN prev_breach ELSE FALSE

\* 10 ^ precision: the unit of a value rounded to that many decimals
Scale(precision) == 10 ^ precision

\* self._cpu_old and self._network_old before the first sample: empty dicts
NoCpu == [total |-> NoneVal, system |-> NoneVal]
NoNet == [read |-> NoneVal, total_tx |-> NoneVal, total_rx |-> NoneVal]

\* lines 1193-1204: the cpu family parses ("nocpu": a key is missing, KeyError)
CpuParsed(raw) == raw.cpu.kind = "ok"

\* a cpu percentage that leaves out the number of online cpus
CpuTotalOfOneCpu(raw, old, precision) ==
    IF ~CpuParsed(raw) \/ old = NoCpu THEN NoneVal
    ELSE LET cpu_delta == raw.cpu.total - old.total
             system_delta == raw.cpu.system - old.system
         IN  IF cpu_delta > 0 /\ system_delta > 0
             THEN RoundHalfEven(cpu_delta * 100 * Scale(precision), system_delta)
             ELSE 0

\* lines 1207-1218: cpu_stats["total"] in units of 10 ^ -precision, or None
CpuTotal(raw, old, precision) ==
    IF ~CpuParsed(raw) \/ old = NoCpu THEN NoneVal
    ELSE LET cpu_delta == raw.cpu.total - old.total
             system_delta == raw.cpu.system - old.system
         IN  IF cpu_delta > 0 /\ system_delta > 0
             THEN RoundHalfEven(cpu_delta * raw.cpu.online_cpus * 100 * Scale(precision),
                                system_delta)
             ELSE 0

\* line 1220
CpuOldAfter(raw, old) ==
    IF CpuParsed(raw) THEN [total |-> raw.cpu.total, system |-> raw.cpu.system] ELSE old

\* lines 1457-1461: the division of the per-core percentage is made
Cpu1Divides(raw, total) == CpuParsed(raw) /\ total # NoneVal
Cpu1Raises(raw, total) == Cpu1Divides(raw, total) /\ raw.cpu.online_cpus = 0
Cpu1Percent(raw, total) ==
    IF Cpu1Divides(raw, total) THEN RoundHalfEven(total, raw.cpu.online_cpus) ELSE NoneVal

\* lines 1230 and 1252, 1288 and 1312: a family's error counter after the
\* family parsed or raised the exception its except clause catches
ErrorCount(count, parsed) == IF parsed THEN 0 ELSE count + 1

\* lines 1257-1278: the memory family parses
MemParsed(sample) == sample.kind = "ok"

\* lines 1275-1278: float division by a limit of 0 MB, not caught at line 1290
MemRaises(sample) == sample.kind = "ok" /\ toMB(sample.limit) = 0

\* _run_container_info() lines 1112-1120: self._info[CONTAINER_INFO_NETWORK_AVAILABLE]
NetworkAvailable(mode, errors) == errors <= 5 /\ mode \notin {"host", "none"}

\* lines 1380-1392: the network family parses ("nonet": KeyError)
NetParsed(raw) == raw.net.kind = "ok"
NetNew(raw) == [read |-> raw.read, total_tx |-> raw.net.tx, total_rx |-> raw.net.rx]

\* lines 1397-1407: float(tx) / tim with tim = 0.0
NetRaises(raw, old, available) ==
    available /\ NetParsed(raw) /\ old # NoNet /\ raw.read - old.read = 0

\* toKB(value / tim, 0), lines 79-82 and 1402-1407
SpeedKB(delta, tim) == RoundHalfEven(delta, tim * 1024)

\* the network family of the packet: speeds, totals, state (lines 1378-1449)
NetSpeed(new, oldTotal, tim, computed) ==
    IF computed THEN SpeedKB(new - oldTotal, tim) ELSE NoneVal
NetTotal(total, available, parsed) ==
    IF ~available THEN NoneVal ELSE IF parsed THEN toMB(total) ELSE 0

\* lines 1172-1470: what _run_container_stats() does with the packet raw
ContainerStats(raw) ==
    LET sample == raw.memory_stats
        usage == MemoryUsage(sample)
        percent == MemoryPercent(sample)
        mem_breach == MemBreach(usage, memory_prev, memory_prev_breach, memChange)
        pb == PrevBreachAfterTest(usage, memory_prev, memory_prev_breach)
        total == CpuTotal(raw, cpu_old, precisionCpu)
        available == NetworkAvailable(networkMode, network_error)
        parsed == NetParsed(raw)
        speedComputed == available /\ parsed /\ network_old # NoNet
        tim == raw.read - network_old.read
        memRaised == MemRaises(sample)
        netRaised == ~memRaised /\ NetRaises(raw, network_old, available)
        cpu1Raised == ~memRaised /\ ~netRaised /\ Cpu1Raises(raw, total)
        raised == memRaised \/ netRaised \/ cpu1Raised
    IN  /\ lastRaw' = raw
        /\ lastSample' = sample
        /\ prevBefore' = memory_prev
        /\ breachBefore' = memory_prev_breach
        /\ cpuBefore' = cpu_old
        /\ netBefore' = network_old
        /\ statsRaised' = IF raised THEN "ZeroDivisionError" ELSE "none"
        /\ cpu_old' = CpuOldAfter(raw, cpu_old)
        /\ cpu_error' = ErrorCount(cpu_error, CpuParsed(raw))
        /\ IF memRaised
           THEN UNCHANGED <<memory_prev, memory_prev_breach, memory_percent_prev,
                            memory_error>>
           ELSE /\ memory_prev' = usage
                /\ memory_prev_breach' = mem_breach
                /\ memory_percent_prev' = percent
                /\ memory_error' = ErrorCount(memory_error, MemParsed(sample))
        /\ IF memRaised \/ netRaised \/ ~available
           THEN UNCHANGED <<network_old, network_error, netFailRun>>
           ELSE IF parsed
           THEN network_old' = NetNew(raw) /\ netFailRun' = 0 /\ UNCHANGED network_error
           ELSE /\ network_error' = network_error + 1
                /\ netFailRun' = netFailRun + 1
                /\ UNCHANGED network_old
        /\ IF raised
           THEN UNCHANGED <<stats_cpu, stats_1cpu, stats_memory, stats_memory_percent,
                            stats_speed_tx, stats_speed_rx, stats_total_tx, stats_total_rx>>
           ELSE /\ stats_cpu' = total
                /\ stats_1cpu' = Cpu1Percent(raw, total)
                /\ IF mem_breach /\ ~pb
                   THEN /\ stats_memory' = memory_prev
                        /\ stats_memory_percent' = memory_percent_prev
                   ELSE /\ stats_memory' = usage
                        /\ stats_memory_percent' = percent
                /\ stats_speed_tx' =
                       NetSpeed(raw.net.tx, network_old.total_tx, tim, speedComputed)
                /\ stats_speed_rx' =
                       NetSpeed(raw.net.rx, network_old.total_rx, tim, speedComputed)
                /\ stats_total_tx' = NetTotal(raw.net.tx, available, parsed)
                /\ stats_total_rx' = NetTotal(raw.net.rx, available, parsed)
        /\ UNCHANGED <<memChange, precisionCpu, networkMode>>

\* one call of _run_container_stats() on the packet raw, on its own
RunContainerStats(raw) ==
    /\ ContainerStats(raw)
    /\ cpu_error' <= MaxErrors /\ memory_error' <= MaxErrors
    /\ UNCHANGED <<convVars, infoVars, pollVars, serviceVars, dockerInfoVars, destroyed, daemonVars,
                   apiVars, runVars, evVars>>

\* raw samples: usage in steps of half a MB, two limits
Samples ==
    [kind : {"ok", "nolimit", "nostats"},
     usage : {h * (BytesPerMB \div 2) : h \in 0..(2 * MaxMem)},
     limit : {MaxMem * BytesPerMB, 2 * MaxMem * BytesPerMB}]
NoSample == [kind |-> "nostats", usage |-> 0, limit |-> MaxMem * BytesPerMB]
QuietMem == [kind |-> "ok", usage |-> BytesPerMB, limit |-> MaxMem * BytesPerMB]

\* memory-change thresholds of the configuration
MemChanges == {25, 50, 100, 150}

\* cpu families of raw packets: counters of the daemon and the number of cpus
CpuSamples ==
    [kind : {"ok", "nocpu"}, total : {100, 150, 200}, system : {1000, 1100, 1300},
     online_cpus : {0, 1, 4}]
QuietCpu == [kind |-> "ok", total |-> 100, system |-> 1000, online_cpus |-> 1]

\* network families of raw packets: byte counters summed over the interfaces
NetSamples == [kind : {"ok", "nonet"}, tx : {0, 2048, 3072}, rx : {0, 1024}]
QuietNet == [kind |-> "ok", tx |-> 0, rx |-> 0]

\* raw packets of container.stats(); read is the packet's time in seconds
Raw(cpus, mems, nets, reads) ==
    [cpu : cpus, memory_stats : mems, net : nets, read : reads]
NoRaw == [cpu |-> [kind |-> "nocpu", total |-> 0, system |-> 0, online_cpus |-> 0],
          memory_stats |-> NoSample,
          net |-> [kind |-> "nonet", tx |-> 0, rx |-> 0],
          read |-> 0]

\* packets whose families parse or not, one second apart, of a container with
\* four cpus: no division in them is by zero
FamilyRaws ==
    Raw({[kind |-> k, total |-> t, system |-> 10 * t, online_cpus |-> 4] :
             k \in {"ok", "nocpu"}, t \in {100, 150}},
        {[kind |-> k, usage |-> 2 * BytesPerMB, limit |-> MaxMem * BytesPerMB] :
             k \in {"ok", "nolimit", "nostats"}},
        {[kind |-> k, tx |-> 2 * BytesPerMB, rx |-> BytesPerMB] : k \in {"ok", "nonet"}},
        1..MaxRead)

\* the daemon's clock and byte counters do not go back
Later(raw) ==
    /\ raw.read >= lastRaw.read
    /\ network_old # NoNet =>
           (raw.net.tx >= network_old.total_tx /\ raw.net.rx >= network_old.total_rx)

\* precisions and network modes of the configuration
CpuPrecisions == {0, 2}
NetworkModes == {"bridge", "host"}

(***************************************************************************)
(* DockerContainerAPI._run_container_info(): the status string.  A time of *)
(* the raw description is given as the relativedelta between now and it.   *)
(***************************************************************************)
\* "<n> <unit>", the unit always in the plural
AmountInPlural(n, unit) == ToString(n) \o " " \o unit \o "s"

\* "{} {}".format(n, unit if n == 1 else units), lines 1646-1664
AmountOf(n, unit) == ToString(n) \o " " \o (IF n = 1 THEN unit ELSE unit \o "s")

\* _calcdockerformat(), lines 1639-1664
calcdockerformat(delta) ==
    IF delta.years # 0 THEN AmountOf(delta.years, "year")
    ELSE IF delta.months # 0 THEN AmountOf(delta.months, "month")
    ELSE IF delta.days # 0 THEN AmountOf(delta.days, "day")
    ELSE IF delta.hours # 0 THEN AmountOf(delta.hours, "hour")
    ELSE IF delta.minutes # 0 THEN AmountOf(delta.minutes, "minute")
    ELSE AmountOf(delta.seconds, "second")

\* lines 1136-1158
ContainerStatus(raw) ==
    IF raw.Status = "running" THEN "Up " \o calcdockerformat(raw.StartedAt)
    ELSE IF raw.Status = "exited"
    THEN "Exited (" \o ToString(raw.ExitCode) \o ") "
             \o calcdockerformat(raw.FinishedAt) \o " ago"
    ELSE IF raw.Status = "created"
    THEN "Created " \o calcdockerformat(raw.Created) \o " ago"
    ELSE IF raw.Status = "restarting" THEN "Restarting"
    ELSE IF raw.Status = "paused"
    THEN "Up " \o calcdockerformat(raw.StartedAt) \o " (Paused)"
    ELSE "None (" \o raw.Status \o ")"

\* lines 1104-1158: one call of _run_container_info() on the description
RunContainerInfo ==
    /\ info_status = "unset"
    /\ info_state' = infoRaw.Status
    /\ info_status' = ContainerStatus(infoRaw)
    /\ UNCHANGED <<infoRaw, daemonVars, apiVars, runVars, evVars, memVars, statsVars,
                   convVars, pollVars, serviceVars, dockerInfoVars, destroyed>>

\* time passed: every unit is 0, 1 or 2
Deltas ==
    [years : 0..2, months : 0..2, days : 0..2, hours : 0..2, minutes : 0..2,
     seconds : 0..2]
Seconds(n) ==
    [years |-> 0, months |-> 0, days |-> 0, hours |-> 0, minutes |-> 0, seconds |-> n]

\* descriptions of a container: one of the three times varies
InfoRaws ==
    LET some == [Status : {"running", "paused", "exited", "created", "restarting", "dead"},
                 ExitCode : {0, 1}]
        T(r, started, finished, created) ==
            [Status |-> r.Status, ExitCode |-> r.ExitCode, StartedAt |-> started,
             FinishedAt |-> finished, Created |-> created]
    IN  {T(r, d, Seconds(1), Seconds(2)) : r \in some, d \in Deltas}
            \cup {T(r, Seconds(2), d, Seconds(0)) : r \in some, d \in Deltas}
            \cup {T(r, Seconds(0), Seconds(1), d) : r \in some, d \in Deltas}
QuietInfo ==
    [Status |-> "running", ExitCode |-> 0, StartedAt |-> Seconds(0),
     FinishedAt |-> Seconds(0), Created |-> Seconds(0)]

(***************************************************************************)
(* DockerContainerAPI._run(), lines 1018-1095, between its suspension      *)
(* points, with cancel_task() and start() / stop() / restart().            *)
(***************************************************************************)
\* line 1027: "if not self._busy"
ChecksContainerAlways(b) == TRUE
ChecksContainer(b) == ~b

\* lines 1091-1095: retry_interval after an error, interval otherwise
SleepAfter(error) == IF error THEN "retry_interval" ELSE "interval"

\* lines 1052-1095: the end of an iteration, up to the sleep; error is still
\* true when an except clause caught an exception, and each of those that
\* stay in the loop logs it with _LOGGER.error
EndIteration(sendNotify, error) ==
    /\ nerrorlog' = IF error THEN nerrorlog + 1 ELSE nerrorlog
    /\ nnotify' = IF sendNotify THEN nnotify + 1 ELSE nnotify
    /\ taskpc' = "sleep"
    /\ sleepFor' = SleepAfter(error)

\* what the fetches and the daemon operations raise
FetchErrors == {"DockerError", "TimeoutError", "ClientError"}

\* the except clauses of lines 1044-1083 for an exception inside the try block:
\* only concurrent.futures' CancelledError leaves the loop
LeavesLoop(kind) == kind = "concurrent.futures.CancelledError"

\* lines 1021-1042: an iteration begins; while busy it fetches nothing,
\* otherwise _run_container_info() empties self._info and awaits show()
PollBegin ==
    /\ taskpc \in {"created", "sleep"}
    /\ niter < MaxIter
    /\ niter' = niter + 1
    /\ iterBusy' = busy
    /\ IF ChecksContainer(busy)
       THEN /\ taskpc' = "show"
            /\ nfetch' = nfetch + 1
            /\ info_state' = "unset" /\ info_status' = "unset"
            /\ UNCHANGED <<nnotify, nerrorlog, sleepFor, infoRaw>>
       ELSE /\ EndIteration(FALSE, FALSE)
            /\ UNCHANGED <<nfetch, infoVars>>
    /\ UNCHANGED <<busy, taskCancelled, atCancel, opsInFlight, nops, lastOp,
                   memVars, statsVars, convVars, daemonVars, apiVars, runVars, evVars,
                   serviceVars, dockerInfoVars, destroyed>>

\* lines 1107-1158 and 1028-1032: show() returns raw; a running or paused
\* container goes on to await stats(), any other ends the iteration
PollShowDone(raw) ==
    /\ taskpc = "show"
    /\ infoRaw' = raw
    /\ info_state' = raw.Status
    /\ info_status' = ContainerStatus(raw)
    /\ IF raw.Status \in {"running", "paused"}
       THEN /\ taskpc' = "stats"
            /\ nfetch' = nfetch + 1
            /\ UNCHANGED <<nnotify, nerrorlog, sleepFor>>
       ELSE /\ EndIteration(TRUE, FALSE)
            /\ UNCHANGED nfetch
    /\ UNCHANGED <<busy, niter, iterBusy, taskCancelled, atCancel, opsInFlight, nops, lastOp,
                   memVars, statsVars, convVars, daemonVars, apiVars, runVars, evVars,
                   serviceVars, dockerInfoVars, destroyed>>

\* lines 1181-1470: stats() returns raw; what _run_container_stats() raises
\* is caught at line 1074
PollStatsDone(raw) ==
    /\ taskpc = "stats"
    /\ ContainerStats(raw)
    /\ EndIteration(TRUE, statsRaised' # "none")
    /\ UNCHANGED <<busy, niter, nfetch, iterBusy, taskCancelled, atCancel, opsInFlight, nops,
                   lastOp, infoVars, convVars, daemonVars, apiVars, runVars, evVars,
                   serviceVars, dockerInfoVars, destroyed>>

\* lines 1052-1083: show() or stats() raises
PollFetchFail(kind) ==
    /\ taskpc \in {"show", "stats"}
    /\ IF LeavesLoop(kind)
       THEN taskpc' = "done" /\ UNCHANGED <<nnotify, nerrorlog, sleepFor>>
       ELSE EndIteration(TRUE, TRUE)
    /\ UNCHANGED <<busy, niter, nfetch, iterBusy, taskCancelled, atCancel, opsInFlight, nops,
                   lastOp, memVars, statsVars, convVars, infoVars,
                   daemonVars, apiVars, runVars, evVars, serviceVars, dockerInfoVars, destroyed>>

\* cancel_task(), lines 1473-1486, with what Task.cancel() does to _run():
\* asyncio's CancelledError is thrown where the task is suspended. In the
\* sleep, outside the try block, it ends the task; a task that has not run
\* yet never runs; in show() or stats() it is caught at line 1060, and the
\* iteration ends as after any other error.
CancelPolling ==
    /\ ~taskCancelled
    /\ taskpc # "done"
    /\ taskCancelled' = TRUE
    /\ atCancel' = [fetch |-> nfetch, notify |-> nnotify]
    /\ IF taskpc \in {"created", "sleep"} \/ LeavesLoop("asyncio.CancelledError")
       THEN taskpc' = "done" /\ UNCHANGED <<nnotify, nerrorlog, sleepFor>>
       ELSE EndIteration(TRUE, TRUE)
    /\ UNCHANGED <<busy, niter, nfetch, iterBusy, opsInFlight, nops, lastOp,
                   memVars, statsVars, convVars, infoVars,
                   daemonVars, apiVars, runVars, evVars, serviceVars, dockerInfoVars, destroyed>>

Operations == {"start", "stop", "restart"}
NoOp == [op |-> "none", outcome |-> "none", logged |-> FALSE, raised |-> FALSE]

\* "except Exception" of lines 1516, 1539 and 1562
CaughtDockerErrorOnly(kind) == kind = "DockerError"
CaughtByOperation(kind) == kind \in FetchErrors

\* start(), stop(), restart(), lines 1527-1586: up to the await of the daemon
OpBegin(op) ==
    /\ op \notin opsInFlight
    /\ nops < MaxOps
    /\ nops' = nops + 1
    /\ busy' = TRUE
    /\ opsInFlight' = opsInFlight \cup {op}
    /\ UNCHANGED <<taskpc, sleepFor, niter, nfetch, nnotify, nerrorlog, iterBusy, taskCancelled,
                   atCancel, lastOp, memVars, statsVars, convVars, infoVars,
                   daemonVars, apiVars, runVars, evVars, serviceVars, dockerInfoVars, destroyed>>

\* _start(), _stop(), _restart(), lines 1511-1570: the daemon answers
OpEnd(op, outcome) ==
    /\ op \in opsInFlight
    /\ opsInFlight' = opsInFlight \ {op}
    /\ busy' = FALSE
    /\ lastOp' = [op |-> op, outcome |-> outcome,
                  logged |-> outcome # "ok" /\ CaughtByOperation(outcome),
                  raised |-> outcome # "ok" /\ ~CaughtByOperation(outcome)]
    /\ UNCHANGED <<taskpc, sleepFor, niter, nfetch, nnotify, nerrorlog, iterBusy, taskCancelled,
                   atCancel, nops, memVars, statsVars, convVars, infoVars,
                   daemonVars, apiVars, runVars, evVars, serviceVars, dockerInfoVars, destroyed>>

\* the descriptions show() returns to the polling loop
PollInfoRaws == {[QuietInfo EXCEPT !.Status = st] : st \in {"running", "exited"}}

(***************************************************************************)
(* DockerAPI._run_docker_info(), lines 697-879, between its suspension     *)
(* points. run() creates the task next to the events task (line 273).      *)
(***************************************************************************)
\* lines 703-710: the head of an iteration: the loop ends when the events
\* task has set self._dockerStopped, otherwise it awaits system.info()
InfoIteration ==
    /\ ninfo < MaxIter
    /\ ninfo' = ninfo + 1
    /\ infopc' = IF dockerStopped' THEN "ended" ELSE "info"
    /\ UNCHANGED <<infoSleepFor, loopInit, info_ncpu, info_memtotal, docker_cpu, docker_1cpu,
                   docker_memory, docker_memory_percent, aggregated>>

\* lines 700-710: the task runs for the first time
DockerInfoStart ==
    /\ infopc = "notstarted"
    /\ evpc # "notstarted"
    /\ dockerStopped' = FALSE
    /\ InfoIteration
    /\ UNCHANGED <<containers, event_create, event_destroy, orphans, daemonVars, runVars,
                   evVars, memVars, statsVars, convVars, infoVars, pollVars, serviceVars,
                   destroyed>>

\* lines 735-748: a container is added to the totals when its info says
\* "running"; a metric that is None is left out
Counted(state) == state = "running"
Contribution(state, value) == IF Counted(state) /\ value # NoneVal THEN value ELSE 0

\* lines 763-772: the memory percentage of the total, 0 without a MemTotal
DockerMemoryPercent(memory, memtotal) ==
    IF toMB(memtotal) # 0 THEN RoundHalfEven(memory * 100, toMB(memtotal)) ELSE 0

\* an aggregate that is published as it is on the first iteration as well
FirstValueKept(value) == value
\* lines 801-838: the aggregate the first successful iteration publishes
FirstValue(value) == IF value = 0 THEN NoneVal ELSE value

\* lines 775-838: the division of the 1-cpu percentage is made
Docker1CpuDivides(cpu) == cpu # NoneVal /\ (loopInit \/ cpu # 0)
Docker1Cpu(cpu, ncpu) ==
    IF Docker1CpuDivides(cpu) THEN RoundHalfEven(cpu, ncpu) ELSE NoneVal

\* the values before the first aggregation: the keys are not in self._info
NotAggregated == [state |-> "unset", cpu |-> NoneVal, memory |-> NoneVal]

\* lines 730-858: the totals over the registry, which holds the one container
\* of this model; the division by a missing NCPU raises, after the cpu total
\* and the memory percentage were stored, and is caught at line 867
Aggregate ==
    LET cpuSum == Contribution(info_state, stats_cpu)
        memSum == Contribution(info_state, stats_memory)
        percent == DockerMemoryPercent(memSum, info_memtotal)
        cpu == IF loopInit THEN cpuSum ELSE FirstValue(cpuSum)
        raised == Docker1CpuDivides(cpu) /\ info_ncpu = 0
    IN  /\ aggregated' = [state |-> info_state, cpu |-> stats_cpu, memory |-> stats_memory]
        /\ docker_cpu' = cpu
        /\ IF raised
           THEN /\ docker_1cpu' = 0
                /\ docker_memory' = memSum
                /\ docker_memory_percent' = percent
                /\ UNCHANGED loopInit
           ELSE /\ docker_1cpu' = Docker1Cpu(cpu, info_ncpu)
                /\ docker_memory' = IF loopInit THEN memSum ELSE FirstValue(memSum)
                /\ docker_memory_percent' = IF loopInit THEN percent ELSE FirstValue(percent)
                /\ loopInit' = TRUE
        /\ infoSleepFor' = SleepAfter(raised)

\* lines 711-878: system.info() returns or raises; the loop sleeps
DockerInfoFetched(outcome) ==
    /\ infopc = "info"
    /\ infopc' = "sleep"
    /\ IF outcome = "ok"
       THEN Aggregate
       ELSE /\ infoSleepFor' = SleepAfter(TRUE)
            /\ UNCHANGED <<loopInit, docker_cpu, docker_1cpu, docker_memory,
                           docker_memory_percent, aggregated>>
    /\ UNCHANGED <<ninfo, info_ncpu, info_memtotal, apiVars, daemonVars, runVars, evVars,
                   memVars, statsVars, convVars, infoVars, pollVars, serviceVars, destroyed>>

\* lines 876-879 and 703-710: the sleep is over
DockerInfoWake ==
    /\ infopc = "sleep"
    /\ UNCHANGED dockerStopped
    /\ InfoIteration
    /\ UNCHANGED <<containers, event_create, event_destroy, orphans, daemonVars, runVars,
                   evVars, memVars, statsVars, convVars, infoVars, pollVars, serviceVars,
                   destroyed>>

(***************************************************************************)
(* DockerAPI.destroy(), lines 312-343. DockerContainerAPI.destroy() awaits *)
(* nothing, so the whole call is one step.                                 *)
(***************************************************************************)
\* Task.cancel() on a task of self._tasks: the CancelledError is no Exception,
\* none of the task's except clauses catches it, the task ends
TaskCancelled(pc) == IF pc \in {"ended", "crashed"} THEN pc ELSE "cancelled"

\* lines 334-338: the entries before the first None are destroyed, which
\* cancels their task (lines 994-1015); container._name of a None entry raises
\* AttributeError, which nothing catches
FirstNone(c) ==
    IF \E i \in 1..Len(c) : IsNone(c[i].v)
    THEN CHOOSE i \in 1..Len(c) : IsNone(c[i].v) /\ \A j \in 1..(i - 1) : ~IsNone(c[j].v)
    ELSE Len(c) + 1
DestroyContainers(c) ==
    [i \in 1..Len(c) |-> IF i < FirstNone(c) THEN [c[i] EXCEPT !.v = CancelTask(@)] ELSE c[i]]

\* the integration is unloaded after run() has returned or raised
Teardown ==
    /\ destroyed = "no"
    /\ runpc \in {"done", "failed"}
    /\ evpc' = TaskCancelled(evpc)
    /\ infopc' = TaskCancelled(infopc)
    /\ containers' = DestroyContainers(containers)
    /\ destroyed' = IF FirstNone(containers) <= Len(containers) THEN "raised" ELSE "done"
    /\ UNCHANGED <<daemonVars, event_create, event_destroy, dockerStopped, orphans, runVars,
                   evret, evname, evctx, evlist, evidx, event, nfail,
                   memVars, statsVars, convVars, infoVars, pollVars, serviceVars,
                   infoSleepFor, ninfo, loopInit, info_ncpu, info_memtotal, docker_cpu,
                   docker_1cpu, docker_memory, docker_memory_percent, aggregated>>

(***************************************************************************)
(* switch.py: the restart service async_restart(), lines 63-96, of the one *)
(* configured server "main".                                               *)
(***************************************************************************)
Servers == {"main"}
NoServer == "None"

\* line 67, "server_name = name": async_restart has no local "name", the
\* enclosing async_setup_platform none (its own is "instance") and the module
\* none, so the global lookup fails with NameError
NameIsDefined == FALSE

\* lines 83-96 and 153-155: the include-list allows cname
Allowed(cname, included) == included = {} \/ cname \in included

\* lines 63-96 on the call data [name, server]
AsyncRestart(call) ==
    LET known == call.server = NoServer \/ call.server \in Servers
        calls == NameIsDefined /\ known /\ Allowed(call.name, server_containers)
                     /\ call.name \in server_monitored
    IN  /\ ncalls < MaxCalls
        /\ ncalls' = ncalls + 1
        /\ parm' = call
        /\ serviceRaised' = IF NameIsDefined THEN "none" ELSE "NameError"
        /\ restarts' = IF calls THEN restarts + 1 ELSE restarts
        /\ UNCHANGED <<server_containers, server_monitored, memVars, statsVars, convVars,
                       infoVars, pollVars, dockerInfoVars, destroyed, daemonVars, apiVars, runVars,
                       evVars>>

\* the data a service call can carry
ServiceCalls == [name : CNames, server : {NoServer, "main", "other"}]
NoCall == [name |-> 0, server |-> NoServer]

(***************************************************************************)
(* Specifications.                                                         *)
(***************************************************************************)
\* before run() has created the task
DockerInfoInitWith(ncpus, memtotals) ==
    /\ infopc = "notstarted" /\ infoSleepFor = "none" /\ ninfo = 0
    /\ loopInit = FALSE
    /\ info_ncpu \in ncpus
    /\ info_memtotal \in memtotals
    /\ docker_cpu = NoneVal /\ docker_1cpu = NoneVal
    /\ docker_memory = NoneVal /\ docker_memory_percent = NoneVal
    /\ aggregated = NotAggregated

DockerInfoInit == DockerInfoInitWith({1}, {0})

\* the configuration and the registry the service finds; no call yet
ServiceInit(includes, monitored) ==
    /\ server_containers \in includes
    /\ server_monitored \in monitored
    /\ parm = NoCall
    /\ restarts = 0
    /\ serviceRaised = "none"
    /\ ncalls = 0

\* DockerContainerAPI.__init__(), lines 918-924, and init(), line 960
PollInit ==
    /\ busy = FALSE
    /\ taskpc = "created"
    /\ sleepFor = "none"
    /\ niter = 0 /\ nfetch = 0 /\ nnotify = 0 /\ nerrorlog = 0
    /\ iterBusy = FALSE
    /\ taskCancelled = FALSE
    /\ atCancel = [fetch |-> 0, notify |-> 0]
    /\ opsInFlight = {}
    /\ nops = 0
    /\ lastOp = NoOp

\* DockerContainerAPI.__init__(), lines 926-937
MemInit(changes) ==
    /\ memChange \in changes
    /\ memory_prev = NoneVal
    /\ memory_prev_breach = FALSE
    /\ memory_percent_prev = NoneVal
    /\ stats_memory = NoneVal
    /\ stats_memory_percent = NoneVal
    /\ lastSample = NoSample
    /\ prevBefore = NoneVal
    /\ breachBefore = FALSE

\* the values x the conversions are made for
ConvInit(xs) == convX \in xs /\ convKB = 0 /\ convMB = 0 /\ convpc = "x"

\* before the first _run_container_info(): self._info is empty
InfoInit(raws) == infoRaw \in raws /\ info_state = "unset" /\ info_status = "unset"

\* DockerContainerAPI.__init__(), lines 908-937
StatsVarsInit(precisions, modes) ==
    /\ precisionCpu \in precisions
    /\ networkMode \in modes
    /\ cpu_old = NoCpu
    /\ network_old = NoNet
    /\ network_error = 0 /\ cpu_error = 0 /\ memory_error = 0 /\ netFailRun = 0
    /\ stats_cpu = NoneVal /\ stats_1cpu = NoneVal
    /\ stats_speed_tx = NoneVal /\ stats_speed_rx = NoneVal
    /\ stats_total_tx = NoneVal /\ stats_total_rx = NoneVal
    /\ statsRaised = "none"
    /\ lastRaw = NoRaw
    /\ cpuBefore = NoCpu
    /\ netBefore = NoNet

\* DockerAPI.__init__(), lines 95-123
ApiInitWith(existing, budget) ==
    /\ dexists \in existing
    /\ streamOpen = FALSE
    /\ stream = <<>>
    /\ emitted = 0
    /\ eventBudget = budget
    /\ containers = <<>>
    /\ event_create = <<>>
    /\ event_destroy = <<>>
    /\ dockerStopped = FALSE
    /\ orphans = [n \in CNames |-> 0]
    /\ runpc = "init" /\ runLen = 0 /\ runVisited = {} /\ runName = 0 /\ runMon = 0
    /\ evpc = "notstarted" /\ evret = "get" /\ evname = 0 /\ evctx = "batch"
    /\ evlist = <<>> /\ evidx = 1 /\ nfail = 0 /\ event = NoEvent
    /\ destroyed = "no"

ApiInit(existing) == ApiInitWith(existing, MaxEvents)

Init ==
    /\ ApiInit(SUBSET CNames) /\ MemInit({100}) /\ StatsVarsInit({2}, {"host"}) /\ ConvInit({0})
    /\ InfoInit({QuietInfo}) /\ PollInit
    /\ ServiceInit({{}}, {{}}) /\ DockerInfoInit

Daemon ==
    \/ \E n \in CNames : DaemonCreate(n)
    \/ \E n \in CNames : DaemonDestroy(n)
    \/ \E o, n \in CNames : DaemonRename(o, n)
    \/ \E t \in {"container", "network"}, n \in CNames : DaemonOther(t, n)
    \/ DaemonStop

Startup == StartupInit \/ RunStart \/ RunAttachDone

Events ==
    \/ EvCreate \/ EvDestroy \/ EvRename \/ EvIgnore \/ EvStreamEnd
    \/ Tick \/ AddGet \/ AddSleep \/ TickSleep \/ Rm \/ RmSleep
    \/ \E kind \in InitErrors : ReconnectInitFail(kind)
    \/ ReconnectWake \/ ReconnectInitOk

Polling == \E i \in 1..MaxNames : PollStep(i)

Next == Daemon \/ Startup \/ Events \/ Polling

Spec == Init /\ [][Next]_vars

\* the spike filter alone, over every sequence of samples
StatsInit ==
    /\ ApiInit({{}}) /\ MemInit(MemChanges) /\ StatsVarsInit({2}, {"host"}) /\ ConvInit({0})
    /\ InfoInit({QuietInfo}) /\ PollInit
    /\ ServiceInit({{}}, {{}}) /\ DockerInfoInit
StatsNext ==
    \E raw \in Raw({QuietCpu}, Samples, {QuietNet}, {0}) : RunContainerStats(raw)
SpecStats == StatsInit /\ [][StatsNext]_vars

\* the cpu family alone, over every sequence of cpu samples
CpuInit ==
    /\ ApiInit({{}}) /\ MemInit({100}) /\ StatsVarsInit(CpuPrecisions, {"host"}) /\ ConvInit({0})
    /\ InfoInit({QuietInfo}) /\ PollInit
    /\ ServiceInit({{}}, {{}}) /\ DockerInfoInit
CpuNext ==
    \E raw \in Raw(CpuSamples, {QuietMem}, {QuietNet}, {0}) : RunContainerStats(raw)
SpecCpu == CpuInit /\ [][CpuNext]_vars

\* the network family alone, over every sequence of network samples
NetInit ==
    /\ ApiInit({{}}) /\ MemInit({100}) /\ StatsVarsInit({2}, NetworkModes) /\ ConvInit({0})
    /\ InfoInit({QuietInfo}) /\ PollInit
    /\ ServiceInit({{}}, {{}}) /\ DockerInfoInit
NetNext ==
    \E raw \in Raw({QuietCpu}, {QuietMem}, NetSamples, 0..MaxRead) :
        Later(raw) /\ RunContainerStats(raw)
SpecNet == NetInit /\ [][NetNext]_vars

\* the events of a run that begins with containers 1 and 2 and in which the
\* daemon makes one change more
AnomalyInit ==
    /\ ApiInitWith({{1, 2}}, MaxEvents + 1)
    /\ MemInit({100}) /\ StatsVarsInit({2}, {"host"}) /\ ConvInit({0})
    /\ InfoInit({QuietInfo}) /\ PollInit
    /\ ServiceInit({{}}, {{}}) /\ DockerInfoInit
SpecAnomaly == AnomalyInit /\ [][Next]_vars

\* the registry with the teardown of the integration
TeardownNext == Next \/ Teardown
SpecTeardown == Init /\ [][TeardownNext]_vars

\* the three loops and their I/O failures: a daemon without containers whose
\* event stream ends, the info task, and the polling loop of one container
LoopsInit ==
    /\ ApiInitWith({{}}, 0)
    /\ MemInit({100}) /\ StatsVarsInit({2}, {"host"}) /\ ConvInit({0})
    /\ InfoInit({QuietInfo}) /\ PollInit
    /\ ServiceInit({{}}, {{}}) /\ DockerInfoInit
LoopsNext ==
    \/ StartupInit \/ RunStart \/ DaemonStop \/ EvStreamEnd
    \/ \E kind \in InitErrors : ReconnectInitFail(kind)
    \/ ReconnectWake \/ ReconnectInitOk
    \/ DockerInfoStart \/ DockerInfoWake
    \/ \E outcome \in {"ok"} \cup FetchErrors : DockerInfoFetched(outcome)
    \/ PollBegin
    \/ \E raw \in PollInfoRaws : PollShowDone(raw)
    \/ \E raw \in Raw({QuietCpu}, {NoSample}, {QuietNet}, {0}) : PollStatsDone(raw)
    \/ \E kind \in FetchErrors : PollFetchFail(kind)
SpecLoops == LoopsInit /\ [][LoopsNext]_vars

\* the totals of the info task over the container whose polling loop runs
\* beside it: a daemon with 3 cpus, 1 cpu or no NCPU, with 8 MB or no MemTotal
AggregateRaws ==
    {[cpu |-> [kind |-> "ok", total |-> t, system |-> 10000 * r, online_cpus |-> 1],
      memory_stats |-> [QuietMem EXCEPT !.usage = u * BytesPerMB],
      net |-> QuietNet,
      read |-> r] : t \in {100, 101, 350}, u \in {1, 3}, r \in 1..MaxRead}
AggregateInit ==
    /\ ApiInitWith({{}}, 0)
    /\ MemInit({100}) /\ StatsVarsInit({2}, {"host"}) /\ ConvInit({0})
    /\ InfoInit({QuietInfo}) /\ PollInit
    /\ ServiceInit({{}}, {{}}) /\ DockerInfoInitWith({0, 1, 3}, {0, 2 * MaxMem * BytesPerMB})
AggregateNext ==
    \/ StartupInit \/ RunStart
    \/ DockerInfoStart \/ DockerInfoWake
    \/ \E outcome \in {"ok", "TimeoutError"} : DockerInfoFetched(outcome)
    \/ PollBegin
    \/ \E raw \in PollInfoRaws : PollShowDone(raw)
    \/ \E raw \in AggregateRaws : raw.read = lastRaw.read + 1 /\ PollStatsDone(raw)
SpecAggregate == AggregateInit /\ [][AggregateNext]_vars

\* the three families together: packets in which any of them fails to parse
FamiliesInit ==
    /\ ApiInit({{}}) /\ MemInit({100}) /\ StatsVarsInit({2}, {"bridge"}) /\ ConvInit({0})
    /\ InfoInit({QuietInfo}) /\ PollInit
    /\ ServiceInit({{}}, {{}}) /\ DockerInfoInit
FamiliesNext ==
    \E raw \in FamilyRaws : raw.read = lastRaw.read + 1 /\ RunContainerStats(raw)
SpecFamilies == FamiliesInit /\ [][FamiliesNext]_vars

\* the restart service, for every include-list and every set of monitors
ServiceSpecInit ==
    /\ ApiInit({{}}) /\ MemInit({100}) /\ StatsVarsInit({2}, {"host"}) /\ ConvInit({0})
    /\ InfoInit({QuietInfo}) /\ PollInit
    /\ ServiceInit(SUBSET CNames, SUBSET CNames) /\ DockerInfoInit
ServiceNext == \E call \in ServiceCalls : AsyncRestart(call)
SpecService == ServiceSpecInit /\ [][ServiceNext]_vars

\* the unit conversions toKB and toMB, for every x of 0..MaxConv
ConvSpecInit ==
    /\ ApiInit({{}}) /\ MemInit({100}) /\ StatsVarsInit({2}, {"host"}) /\ ConvInit(0..MaxConv)
    /\ InfoInit({QuietInfo}) /\ PollInit
    /\ ServiceInit({{}}, {{}}) /\ DockerInfoInit
ConvNext == ConvToKB \/ ConvToMB
SpecConv == ConvSpecInit /\ [][ConvNext]_vars

\* the status string, for every description of InfoRaws
InfoSpecInit ==
    /\ ApiInit({{}}) /\ MemInit({100}) /\ StatsVarsInit({2}, {"host"}) /\ ConvInit({0})
    /\ InfoInit(InfoRaws) /\ PollInit
    /\ ServiceInit({{}}, {{}}) /\ DockerInfoInit
InfoNext == RunContainerInfo
SpecInfo == InfoSpecInit /\ [][InfoNext]_vars

\* one polling loop with the switch's start / stop / restart and cancel_task()
PollSpecInit ==
    /\ ApiInit({{}}) /\ MemInit({100}) /\ StatsVarsInit({2}, {"host"}) /\ ConvInit({0})
    /\ InfoInit({QuietInfo}) /\ PollInit
    /\ ServiceInit({{}}, {{}}) /\ DockerInfoInit
PollNext ==
    \/ PollBegin
    \/ \E raw \in PollInfoRaws : PollShowDone(raw)
    \/ \E raw \in Raw({QuietCpu}, {NoSample}, {QuietNet}, {0}) : PollStatsDone(raw)
    \/ \E kind \in FetchErrors : PollFetchFail(kind)
    \/ CancelPolling
    \/ \E op \in Operations : OpBegin(op)
    \/ \E op \in Operations, outcome \in {"ok"} \cup FetchErrors : OpEnd(op, outcome)
SpecPoll == PollSpecInit /\ [][PollNext]_vars

(***************************************************************************)
(* Observations of the state used by the properties.                       *)
(***************************************************************************)
\* polling loops _run() alive for name n: the registry entry's and the ones
\* whose monitor the registry no longer holds
LiveLoops(n) ==
    (IF Has(containers, n) /\ Alive(Get(containers, n)) THEN 1 ELSE 0) + orphans[n]

\* the events task is inside the stream-end branch (lines 446-473)
InStreamEnd == evpc \in {"reconnect_init", "reconnect_sleep"} \/ (evpc \in {"rm", "rm_sleep"} /\ evctx = "end")
InReconnect == evpc \in {"reconnect_init", "reconnect_sleep"}

\* the events task is inside _container_create_destroy(), lines 620-650
BatchRuns ==
    \/ evpc \in {"tick", "tick_sleep", "add_get", "add_sleep"}
    \/ evpc \in {"rm", "rm_sleep"} /\ evctx = "batch"

\* the memory reading of the sample the last step handled
NewReading == MemoryUsage(lastSample)

(***************************************************************************)
(* Properties.                                                             *)
(***************************************************************************)
\* C1: no container name is in the pending-create table and in the
\* pending-destroy table at the same time.
PendingTablesDisjoint == Keys(event_create) \cap Keys(event_destroy) = {}

\* C2: at most one polling loop is alive per container name, whether its
\* monitor is the registry's entry or one the registry has given up.
AtMostOneLiveMonitor == \A n \in CNames : LiveLoops(n) <= 1

\* C3: a pending create starts with counter 0, the counter changes only by one
\* and only in a reconciliation tick, and the batch takes a name out of the
\* pending-create table and runs the add for it only when its counter is > 2.
AddOnlyAfterThreeTicks ==
    [][/\ \A n \in CNames :
            /\ (Has(event_create', n) /\ ~Has(event_create, n))
                   => Get(event_create', n) = 0
            /\ (Has(event_create', n) /\ Has(event_create, n)
                    /\ Get(event_create', n) # Get(event_create, n))
                   => (evpc = "tick" /\ Get(event_create', n) = Get(event_create, n) + 1)
            /\ (Has(event_create, n) /\ ~Has(event_create', n) /\ evpc # "get")
                   => (evpc = "tick" /\ Get(event_create, n) > 2)
       /\ (evpc' = "add_get" /\ evpc # "add_get")
              => (/\ evpc = "tick"
                  /\ Has(event_create, evname') /\ Get(event_create, evname') > 2
                  /\ ~Has(containers, evname') /\ Has(containers', evname'))
      ]_vars

\* C3 witness: the add of a created container went through
AddAfterThreeTicksDone ==
    evpc = "add_sleep" /\ event.Action = "create" /\ event.name = evname

\* C4: the add of a created name is not executed while a destroy event for
\* that name, emitted after the create, is waiting on the event stream.
DestroyCancelsPendingCreate ==
    ~(/\ evpc = "add_get"
      /\ event.Action = "create" /\ event.name = evname
      /\ \E i \in 1..Len(stream) : stream[i] = Ev("container", "destroy", evname, 0))

\* C5: when the handler of a rename old -> new has run to its end, the
\* registry holds new and no longer holds old, whose monitor was running.
RenameReplacesOldByNew ==
    [][(/\ event'.Action = "rename" /\ evpc' = "get" /\ evpc \notin {"get", "notstarted"}
        /\ Has(containers, event'.oldName) /\ Alive(Get(containers, event'.oldName)))
           => (Has(containers', event'.name) /\ ~Has(containers', event'.oldName))
      ]_vars

\* C6: a failed init attempt, whatever the error, is followed by the sleep,
\* the sleep by the next attempt, and the reconnect ends only by an init
\* that succeeded (which registers the listed containers).
ReconnectNeverGivesUp ==
    [][/\ (evpc = "reconnect_init" /\ evpc' # "reconnect_init")
              => \/ evpc' = "reconnect_sleep" /\ nfail' = nfail + 1
                 \/ evpc' = "ended" /\ containers' = RegisterListed(containers, dexists)
       /\ (evpc = "reconnect_sleep" /\ evpc' # "reconnect_sleep")
              => evpc' = "reconnect_init"
       /\ (evpc' = "reconnect_sleep") => (ENABLED ReconnectWake)'
      ]_vars

\* C6 witness: the reconnect succeeded after MaxFail failed attempts
ReconnectedAfterFailures == evpc = "ended" /\ nfail = MaxFail

\* C7: once the reconnect has succeeded and startup is over, every container
\* of the registry has a monitor with a running polling loop.
MonitoringComesBack ==
    (evpc = "ended" /\ runpc \in {"done", "failed"})
        => \A i \in 1..Len(containers) : Alive(containers[i].v)

\* C8: after the stream has ended the events task is either still in the
\* stream-end branch or reading events again on an open subscription.
ConsumerResumesAfterReconnect ==
    (dockerStopped /\ ~InStreamEnd) => (evpc = "get" /\ streamOpen)

\* C9: the registry is empty when the reconnect begins.
RegistryEmptyAtReconnect == InReconnect => containers = <<>>

\* C10: a reading new >= 0 that differs from the previous reading prev by
\* memChange percent or more, with memChange < 100 and prev not a suppressed
\* breach, is reported as prev and kept as (previous = new, breach = true).
SpikeIsSuppressed ==
    [][(/\ NewReading' # NoneVal
        /\ memory_prev # NoneVal /\ memory_prev > 0
        /\ ~memory_prev_breach
        /\ memChange < 100
        /\ (IF NewReading' >= memory_prev THEN NewReading' - memory_prev
            ELSE memory_prev - NewReading') * 100 >= memChange * memory_prev)
           => (/\ stats_memory' = memory_prev
               /\ memory_prev' = NewReading'
               /\ memory_prev_breach' = TRUE)
      ]_vars

\* C11: the sample after a suppressed one is reported with its own raw value,
\* whatever its change, and the breach flag is false afterwards; so no two
\* consecutive samples are suppressed.
NoTwoConsecutiveSuppressions ==
    [][memory_prev_breach
           => (/\ stats_memory' = NewReading'
               /\ stats_memory_percent' = MemoryPercent(lastSample')
               /\ ~memory_prev_breach')
      ]_vars

\* C11 witness: a sample that breaches against the suppressed reading has
\* been reported as it is
SecondSpikeReported ==
    /\ breachBefore /\ memChange < 100
    /\ prevBefore > 0 /\ NewReading >= 2 * prevBefore
    /\ stats_memory = NewReading /\ ~memory_prev_breach

\* C12: with a memory-change threshold of 100 or more the reported memory
\* value is the new raw value, and no sample is marked as a breach.
ThresholdHundredDisablesFilter ==
    [][memChange >= 100
           => (stats_memory' = NewReading' /\ ~memory_prev_breach')
      ]_vars

\* C12 witness: at threshold 100 a reading of at least twice the previous one
\* has been reported as it is
DoubledReadingReportedAtHundred ==
    /\ memChange = 100
    /\ prevBefore > 0 /\ NewReading >= 2 * prevBefore
    /\ stats_memory = NewReading

\* C13: a well-formed sample handled with no previous cpu sample gives a cpu
\* percentage of None; with a previous sample it gives the value nearest to
\* (deltaTotal / deltaSystem) * onlineCpus * 100 at the configured precision
\* when both deltas are positive, and 0 otherwise.
CpuPercentFollowsDeltas ==
    [][(CpuParsed(lastRaw') /\ statsRaised' = "none")
           => LET deltaTotal == lastRaw'.cpu.total - cpu_old.total
                  deltaSystem == lastRaw'.cpu.system - cpu_old.system
                  exact == deltaTotal * lastRaw'.cpu.online_cpus * 100 * Scale(precisionCpu)
                  off == stats_cpu' * deltaSystem - exact
              IN  IF cpu_old = NoCpu THEN stats_cpu' = NoneVal
                  ELSE IF deltaTotal > 0 /\ deltaSystem > 0
                       THEN stats_cpu' >= 0 /\ 2 * off <= deltaSystem /\ 2 * off >= -deltaSystem
                       ELSE stats_cpu' = 0
      ]_vars

\* C13 witness: 100, 1000 then 150, 1100 with 4 cpus has given 200.0
CpuExampleGivesTwoHundred ==
    /\ cpuBefore = [total |-> 100, system |-> 1000]
    /\ lastRaw.cpu = [kind |-> "ok", total |-> 150, system |-> 1100, online_cpus |-> 4]
    /\ statsRaised = "none"
    /\ stats_cpu = 200 * Scale(precisionCpu)

\* C14: a sample that reports 0 online cpus raises no error and has a
\* per-core percentage of None.
ZeroCpusGiveNone ==
    [][(CpuParsed(lastRaw') /\ lastRaw'.cpu.online_cpus = 0)
           => (statsRaised' = "none" /\ stats_1cpu' = NoneVal)
      ]_vars

\* C15: a network sample read at the time of the previous one raises no
\* error, leaves the speeds as they were and publishes the sample's totals.
ZeroElapsedIsSkipped ==
    [][(/\ NetworkAvailable(networkMode, network_error)
        /\ NetParsed(lastRaw')
        /\ network_old # NoNet /\ lastRaw'.read = network_old.read)
           => (/\ statsRaised' = "none"
               /\ stats_total_tx' = toMB(lastRaw'.net.tx)
               /\ stats_total_rx' = toMB(lastRaw'.net.rx))
      ]_vars

UnitNames == <<"year", "month", "day", "hour", "minute", "second">>
UnitAmounts(delta) ==
    <<delta.years, delta.months, delta.days, delta.hours, delta.minutes, delta.seconds>>

\* the largest unit that is not zero, singular for 1; "0 seconds" if there is none
LargestUnit(delta) ==
    LET amounts == UnitAmounts(delta)
        nonzero == {i \in 1..6 : amounts[i] # 0}
    IN  IF nonzero = {} THEN "0 seconds"
        ELSE LET i == CHOOSE k \in nonzero : \A j \in nonzero : k <= j
             IN  IF amounts[i] = 1 THEN "1 " \o UnitNames[i]
                 ELSE ToString(amounts[i]) \o " " \o UnitNames[i] \o "s"

OperationEndsNotBusy ==
    [][(\E op \in Operations : op \in opsInFlight /\ op \notin opsInFlight')
           => /\ busy' = FALSE
              /\ lastOp'.raised = FALSE
              /\ lastOp'.outcome # "ok" => lastOp'.logged]_vars

\* C18 witness: a stop() the daemon timed out on has completed
StopTimedOutAndLogged ==
    /\ lastOp = [op |-> "stop", outcome |-> "TimeoutError", logged |-> TRUE, raised |-> FALSE]
    /\ busy = FALSE
    /\ opsInFlight = {}

\* C19: an iteration of the polling loop that begins while busy is true makes
\* no fetch, sends no notification and leaves self._info alone; the loop then
\* sleeps for the scan interval, after which the next iteration begins.
BusyIterationFetchesNothing ==
    [][(niter' = niter + 1 /\ busy)
           => /\ nfetch' = nfetch
              /\ nnotify' = nnotify
              /\ UNCHANGED infoVars
              /\ taskpc' = "sleep"
              /\ sleepFor' = "interval"
              /\ niter' < MaxIter => (ENABLED PollBegin)']_vars

\* C19 witness: the second iteration began during a start/stop/restart, after
\* a first one that fetched and notified
BusyIterationSlept ==
    /\ iterBusy /\ niter = 2
    /\ taskpc = "sleep" /\ sleepFor = "interval"
    /\ nfetch = 1 /\ nnotify = 1
    /\ info_state = "exited"

\* C20: once cancel_task() has cancelled the polling task, the loop has stopped:
\* it makes no further fetch and sends no further notification.
CancelledLoopStops ==
    taskCancelled =>
        /\ taskpc = "done"
        /\ nfetch = atCancel.fetch
        /\ nnotify = atCancel.notify

\* C21: a parse failure in one family (cpu, memory, network) of a stats packet
\* makes that family's published values None (for a memory family without its
\* limit, the percentage) and only those: the call raises nothing and the
\* families that parse are published as computed.
ParseFailureIsolatesFamily ==
    [][LET raw == lastRaw'
       IN  /\ statsRaised' = "none"
           /\ IF CpuParsed(raw)
              THEN stats_cpu' = CpuTotal(raw, cpu_old, precisionCpu)
              ELSE stats_cpu' = NoneVal /\ stats_1cpu' = NoneVal
           /\ IF raw.memory_stats.kind = "ok"
              THEN /\ stats_memory' = MemoryUsage(raw.memory_stats)
                   /\ stats_memory_percent' = MemoryPercent(raw.memory_stats)
              ELSE /\ stats_memory_percent' = NoneVal
                   /\ raw.memory_stats.kind = "nostats" => stats_memory' = NoneVal
           /\ IF NetParsed(raw)
              THEN /\ stats_total_tx' = toMB(raw.net.tx)
                   /\ stats_total_rx' = toMB(raw.net.rx)
              ELSE /\ stats_total_tx' = NoneVal /\ stats_total_rx' = NoneVal
                   /\ stats_speed_tx' = NoneVal /\ stats_speed_rx' = NoneVal
      ]_vars

\* C22: a call of the restart service calls restart() exactly once on the
\* named container's monitor when the server is the configured one or is
\* omitted, the container is monitored and the include-list allows it; in
\* every other case it calls no restart().
RestartServiceCallsRestartOnce ==
    [][ncalls' = ncalls + 1 =>
           restarts' = restarts +
               (IF /\ parm'.server \in Servers \cup {NoServer}
                   /\ parm'.name \in server_monitored
                   /\ (server_containers = {} \/ parm'.name \in server_containers)
                THEN 1 ELSE 0)]_vars

\* C23: the handling of a rename event old -> new does to the pending tables
\* what destroy(old) followed by create(new) does: old is taken out of
\* pending-create if it is there and is queued in pending-destroy otherwise,
\* and new is queued in pending-create (at once, or when the batch the handler
\* awaits for old has returned), whether or not old is in the registry.
RenameIsDestroyThenCreate ==
    [][(/\ EvReady
        /\ Head(stream).Type = "container" /\ Head(stream).Action = "rename"
        /\ stream' = Tail(stream))
           => LET cname == Head(stream).name
                  oname == Head(stream).oldName
              IN  /\ IF Has(event_create, oname)
                     THEN ~Has(event_create', oname)
                     ELSE Has(event_destroy', oname)
                  /\ Has(event_create', cname) \/ evret' = "rename2"]_vars

\* C24: when a create event is handled for a name that is in the
\* pending-destroy table, the name is taken out of pending-destroy.
CreateCancelsPendingDestroy ==
    [][(/\ EvReady
        /\ Head(stream).Type = "container" /\ Head(stream).Action = "create"
        /\ stream' = Tail(stream)
        /\ Has(event_destroy, Head(stream).name))
           => ~Has(event_destroy', Head(stream).name)]_vars

\* C25: whenever a pending table is not empty a reconciliation batch is
\* running (so that the tables become empty), also for names that are pending
\* after an earlier batch was ended by an error of an add or a remove.
PendingMeansBatchRuns ==
    TaskCreated(event_create, event_destroy) => BatchRuns

\* C26: one tick of the reconciliation batch executes at most one container
\* add; it executes pending destroys only if no create fires in it, and a
\* tick that executes the pending destroys executes all of them and leaves
\* the pending-destroy table empty.
TickAddsOneOrDestroysAll ==
    [][/\ evpc = "tick" =>
              /\ Cardinality(Keys(event_create) \ Keys(event_create')) <= 1
              /\ Cardinality(Keys(containers') \ Keys(containers)) <= 1
              /\ evpc' = "rm" => Keys(event_create') = Keys(event_create)
       /\ (evpc \in {"rm", "rm_sleep"} /\ evctx = "batch" /\ evpc' \notin {"rm", "rm_sleep"})
              => event_destroy' = <<>>
      ]_vars

\* C27: an anomaly of the debounce tables met while an event is handled (a
\* create or destroy for a name that is pending already, a destroy or rename
\* for a name without registry entry, a rename while a name is pending) does
\* not stop the events task: it goes on to read the events that follow.
AnomalyKeepsConsumerRunning ==
    [][(EvReady /\ Head(stream) # EndOfStream /\ stream' = Tail(stream))
           => evpc' # "crashed"]_vars

\* C28: no I/O failure (of show() or stats(), of system.info(), of the event
\* stream) ends the polling loop of a container, the info loop or the events
\* task: after a failure the loop sleeps for the retry interval and goes on.
NoFailureStopsALoop ==
    /\ taskpc # "done"
    /\ infopc # "ended"
    /\ evpc \notin {"ended", "crashed"}

\* C29: the subscribers are notified after every iteration of the polling loop
\* that succeeded and after no other: not after an iteration whose fetch
\* failed and not after one that was skipped because of busy.
NotifyOnlyAfterSuccess ==
    [][/\ (taskpc \in {"show", "stats"} /\ taskpc' = "sleep" /\ ~taskCancelled')
              => nnotify' = nnotify + (IF sleepFor' = "interval" THEN 1 ELSE 0)
       /\ (niter' = niter + 1 /\ busy) => nnotify' = nnotify
      ]_vars

\* C30: the cancellation of the polling task is not logged as an error and is
\* not handled as an I/O failure: cancel_task() causes no entry in the error
\* log and no sleep for the retry interval.
CancelIsNotAnError ==
    [][(~taskCancelled /\ taskCancelled')
           => /\ nerrorlog' = nerrorlog
              /\ ~(taskpc' = "sleep" /\ sleepFor' = "retry_interval")]_vars

\* C31: each of the three error counters of a container (cpu, memory, network)
\* is incremented by a sample in which its family fails to parse, and is zero
\* after a sample in which its family is parsed.
ErrorCountersFollowFamilies ==
    [][lastRaw' # lastRaw =>
           /\ cpu_error' = IF CpuParsed(lastRaw') THEN 0 ELSE cpu_error + 1
           /\ memory_error' =
                  IF MemParsed(lastRaw'.memory_stats) THEN 0 ELSE memory_error + 1
           /\ network_error' = IF NetParsed(lastRaw') THEN 0 ELSE network_error + 1
      ]_vars

\* C32: the network monitoring of a container whose network mode allows it is
\* disabled exactly when the network family has failed 5 times in a row: not
\* before, not after a 6th failure, and not by failures with a success in
\* between; a disabled monitor makes no further attempt, so the run stays at 5.
NetworkDisabledAfterFiveInARow ==
    networkMode \notin {"host", "none"} =>
        (NetworkAvailable(networkMode, network_error) <=> netFailRun < 5)

\* C33: after an iteration of the polling loop whose stats fetch or whose
\* processing of the packet failed, the published stats are not those of an
\* earlier poll: the cpu and network metrics, none of which could be derived,
\* read None (the memory metrics, which the spike filter may hold back, are
\* left out).
FailedPollPublishesNoStaleStats ==
    [][(taskpc = "stats" /\ taskpc' = "sleep" /\ sleepFor' = "retry_interval")
           => /\ stats_cpu' = NoneVal /\ stats_1cpu' = NoneVal
              /\ stats_speed_tx' = NoneVal /\ stats_speed_rx' = NoneVal
              /\ stats_total_tx' = NoneVal /\ stats_total_rx' = NoneVal
      ]_vars

\* C34: the spike filter of the memory percentage is independent of the one of
\* the memory usage: a sample whose percentage does not differ from the
\* previous percentage reading by the threshold is published with its own
\* percentage, whatever the usage of the same sample does (samples whose
\* memory family parses).
PercentFilteredOnItsOwn ==
    [][(lastSample' # lastSample /\ MemParsed(lastSample') /\ statsRaised' = "none"
            /\ ~MemBreach(MemoryPercent(lastSample'), memory_percent_prev, FALSE, memChange))
           => stats_memory_percent' = MemoryPercent(lastSample')
      ]_vars

\* C35: run() gives every container that is registered but not attached one
\* attach attempt, one after the other, whether an earlier attach failed or
\* not: when run() has ended, no entry of the registry is still unattached
\* (None), as long as the daemon has not stopped and init() has not
\* registered the containers anew.
RunAttachesEveryKnownContainer ==
    (runpc \in {"done", "failed"} /\ ~dockerStopped)
        => \A n \in Keys(containers) : ~IsNone(Get(containers, n))

\* the totals an aggregation step computes, before they are published
CpuSum == Contribution(info_state, stats_cpu)
MemSum == Contribution(info_state, stats_memory)
\* an iteration of the info task succeeds: the first one, a later one
FirstSuccess == ~loopInit /\ loopInit'
LaterSuccess == loopInit /\ infopc = "info" /\ infopc' = "sleep" /\ infoSleepFor' = "interval"

AggregationReadsCompletedPoll ==
    [][(infopc = "info" /\ infopc' = "sleep" /\ infoSleepFor' = "interval"
            /\ taskpc = "show" /\ niter > 1)
           => /\ aggregated'.state = infoRaw.Status
              /\ (infoRaw.Status = "running" /\ Truthy(stats_memory))
                     => docker_memory' = stats_memory
      ]_vars

\* C38: the teardown cancels the events task, the info task and the polling
\* task of every monitor of the registry, whatever the registry holds: after
\* it no task of self._tasks goes on and every monitor whose loop is alive has
\* been cancelled.
TeardownCancelsEveryTask ==
    destroyed # "no" =>
        /\ evpc \in {"cancelled", "ended", "crashed"}
        /\ infopc \in {"cancelled", "ended", "crashed"}
        /\ \A i \in 1..Len(containers) :
               Alive(containers[i].v) => containers[i].v.cancelled

\* C39: busy is true in every state in which a start, a stop or a restart of
\* the container is in flight, overlapping operations included.
BusyWhileAnOperationIsInFlight == opsInFlight # {} => busy

\* C40: while run() is still iterating over the registry (it is suspended in
\* the attach of a container), a reconciliation batch inserts no name into
\* the registry and removes none from it.
NoBatchWriteDuringStartup ==
    [][(runpc = "attach" /\ BatchRuns) => KeySeq(containers') = KeySeq(containers)]_vars

====
